---- MODULE Spec2Model ----
(***************************************************************************)
(* Birthday-reminder scheduling engine of hafis915/birthday-service.       *)
(*                                                                         *)
(* The store is the users collection (one reminder state per profile).     *)
(* The scans (processBirthdayReminders, processMissedReminders,            *)
(* initializeAllReminders) are modelled at the granularity of their        *)
(* awaited store calls; the profile mutations (createUser, updateUser,     *)
(* deleteUser) issue their reminder write without awaiting it.             *)
(* Instants are seconds since 1970-01-01T00:00:00Z.                        *)
(***************************************************************************)
EXTENDS Integers, Sequences, FiniteSets, TLC

VARIABLES users, tick, runs, notified, pending, owed, faults, calls, tzOff,
          driver, ret, migration, birthdayJobs

vars == <<users, tick, runs, notified, pending, owed, faults, calls, tzOff, driver, ret,
                 migration, birthdayJobs>>

(***************************************************************************)
(* Bounds of the model.                                                    *)
(***************************************************************************)
NUsers == 3
MaxBatch == 2
MaxTick == 2
MaxFaults == 1
MaxCalls == 1
MaxOverlap == 2
MaxHours == 2
MigrationBatchSize == 2
MaxJobs == 3

Users == 1..NUsers
RunIds == {"due", "missed", "init"}

(* The JavaScript null of a nullable field. *)
Null == -1

(***************************************************************************)
(* Calendar arithmetic of the JavaScript Date object (proleptic Gregorian, *)
(* UTC).                                                                   *)
(***************************************************************************)
SecondsPerMinute == 60
SecondsPerHour == 60 * SecondsPerMinute
SecondsPerDay == 24 * SecondsPerHour

isLeapYear(year) ==
    (year % 4 = 0 /\ year % 100 # 0) \/ (year % 400 = 0)

(* Days since the epoch of the civil date (y, m, d), m in 1..12. *)
DaysFromCivil(y, m, d) ==
    LET yy  == IF m <= 2 THEN y - 1 ELSE y
        era == yy \div 400
        yoe == yy - era * 400
        mp  == IF m > 2 THEN m - 3 ELSE m + 9
        doy == (153 * mp + 2) \div 5 + d - 1
        doe == yoe * 365 + yoe \div 4 - yoe \div 100 + doy
    IN  era * 146097 + doe - 719468

(* The civil date <<year, month (1..12), day>> of a day number. *)
CivilFromDays(z) ==
    LET zz  == z + 719468
        era == zz \div 146097
        doe == zz - era * 146097
        yoe == (doe - doe \div 1460 + doe \div 36524 - doe \div 146096) \div 365
        doy == doe - (365 * yoe + yoe \div 4 - yoe \div 100)
        mp  == (5 * doy + 2) \div 153
        d   == doy - (153 * mp + 2) \div 5 + 1
        m   == IF mp < 10 THEN mp + 3 ELSE mp - 9
        y   == yoe + era * 400
    IN  <<IF m <= 2 THEN y + 1 ELSE y, m, d>>

(* Date.UTC(year, month0, day, hour, minute, 0): month0 in 0..11; a day    *)
(* past the end of the month rolls over into the next month.               *)
DateUTC(year, month0, day, hour, minute) ==
    (DaysFromCivil(year, month0 + 1, 1) + day - 1) * SecondsPerDay
        + hour * SecondsPerHour + minute * SecondsPerMinute

(* The fields of an instant read by getFullYear, getMonth, getDate,        *)
(* getHours, getMinutes in a zone `off` seconds east of UTC.               *)
LocalFields(t, off) ==
    LET loc == t + off
        day == loc \div SecondsPerDay
        sod == loc - day * SecondsPerDay
        ymd == CivilFromDays(day)
    IN  [year   |-> ymd[1],
         month0 |-> ymd[2] - 1,
         date   |-> ymd[3],
         hours  |-> sod \div SecondsPerHour,
         minutes |-> (sod % SecondsPerHour) \div SecondsPerMinute]

getFullYear(t, off) == LocalFields(t, off).year

(* The hour of day at which a reminder fires. *)
FireHour == 9

(***************************************************************************)
(* calculateNextBirthday: the next reminder instant of a profile with the  *)
(* given birthday and timezone, evaluated at instant t by a process whose  *)
(* local zone is `off` seconds east of UTC.  Null when the birthday or the *)
(* timezone is missing.                                                    *)
(***************************************************************************)
(* A substitution applied to every 29 February, leap year or not. *)
FebRolloverAlways(month0, day, year) ==
    month0 = 1 /\ day = 29

FebRollover(month0, day, year) ==
    month0 = 1 /\ day = 29 /\ ~isLeapYear(year)

(* An occurrence at midnight instead of the fire hour. *)
CandidateAtMidnight(year, month0, day) ==
    IF FebRollover(month0, day, year)
    THEN DateUTC(year, 2, 1, 0, 0)
    ELSE DateUTC(year, month0, day, 0, 0)

Candidate(year, month0, day) ==
    IF FebRollover(month0, day, year)
    THEN DateUTC(year, 2, 1, FireHour, 0)
    ELSE DateUTC(year, month0, day, FireHour, 0)

calculateNextBirthday(birthday, hasTz, t, off) ==
    IF birthday = Null \/ ~hasTz THEN Null
    ELSE
      LET n == LocalFields(t, off)
          b == LocalFields(birthday, off)
          nowUTC == DateUTC(n.year, n.month0, n.date, n.hours, n.minutes)
          thisYear == Candidate(n.year, b.month0, b.date)
      IN  IF thisYear < nowUTC
          THEN Candidate(n.year + 1, b.month0, b.date)
          ELSE thisYear

(***************************************************************************)
(* The clock.  The model reads the wall clock at a few instants around the *)
(* reminder of 15 May: 08:30:00 (the reminder lies within the next hour),  *)
(* 09:00:30 (it fell due half a minute ago), 09:31:00, ...                 *)
(***************************************************************************)
ClockStart == DateUTC(2024, 4, 15, 8, 30)
TickSeconds == 30 * SecondsPerMinute + 30
ClockAt(i) == ClockStart + i * TickSeconds
Now == ClockAt(tick)

(* Zones of the server process (seconds east of UTC). *)
ServerOffsets == {0}

(* Birthdays of the profiles of the model: 14 May and 15 May 1990. *)
BirthdayA == DateUTC(1990, 4, 14, 0, 0)
BirthdayB == DateUTC(1990, 4, 15, 0, 0)
Birthdays == {BirthdayA, BirthdayB}

(***************************************************************************)
(* The store: one document per profile, with its reminder state.           *)
(***************************************************************************)
UserDocument(birthday, next, lpy) ==
    [present   |-> TRUE,       \* the document exists
     active    |-> TRUE,       \* the profile's own soft-delete flag
     birthday  |-> birthday,
     tz        |-> TRUE,       \* a timezone is set
     zone      |-> 0,          \* its offset from UTC, in seconds
     reminder  |-> TRUE,       \* the birthdayReminder field exists
     remActive |-> TRUE,       \* birthdayReminder.active
     next      |-> next,       \* birthdayReminder.nextReminder
     lpy       |-> lpy]        \* birthdayReminder.lastProcessedYear

NoDocument ==
    [present |-> FALSE, active |-> FALSE, birthday |-> Null, tz |-> FALSE,
     zone |-> 0, reminder |-> FALSE, remActive |-> FALSE, next |-> Null,
     lpy |-> Null]

(* What a page fetch hands to the per-item code: a copy of the document. *)
Snapshot(u) ==
    [id |-> u, birthday |-> users[u].birthday, tz |-> users[u].tz,
     next |-> users[u].next, lpy |-> users[u].lpy]

IdSeq == [i \in 1..NUsers |-> i]

Horizon == SecondsPerHour
LookbackHours == 24

(* The filter of processBirthdayReminders' query at run instant t. *)
DueFilter(u, t) ==
    /\ users[u].present
    /\ users[u].remActive
    /\ users[u].next # Null
    /\ users[u].next <= t + Horizon

(* A missed-reminder query without the lower end of the window. *)
MissedFilterOpenEnded(u, t, currentYear) ==
    /\ users[u].present
    /\ users[u].remActive
    /\ users[u].next # Null
    /\ users[u].next <= t
    /\ users[u].lpy # currentYear

(* The filter of processMissedReminders' query at run instant t, in       *)
(* calendar year currentYear.                                              *)
MissedFilter(u, t, currentYear) ==
    /\ users[u].present
    /\ users[u].remActive
    /\ users[u].next # Null
    /\ users[u].next >= t - LookbackHours * SecondsPerHour
    /\ users[u].next <= t
    /\ users[u].lpy # currentYear

(* The filter of initializeAllReminders' query. *)
InitFilter(u) ==
    /\ users[u].present
    /\ users[u].next = Null

(* A reminder strictly inside the lookback window, not processed this year. *)
StrictlyMissed(u, t, currentYear) ==
    /\ MissedFilter(u, t, currentYear)
    /\ users[u].next > t - LookbackHours * SecondsPerHour
    /\ users[u].next < t

Filter(r, u, t, currentYear) ==
    CASE r = "due"    -> DueFilter(u, t)
      [] r = "missed" -> MissedFilter(u, t, currentYear)
      [] OTHER        -> InitFilter(u)

Min(a, b) == IF a < b THEN a ELSE b

(* find(filter).skip(skip).limit(limit): the documents in id order. *)
FindPage(r, t, currentYear, skip, limit) ==
    LET hits == SelectSeq(IdSeq, LAMBDA u : Filter(r, u, t, currentYear))
        ids  == SubSeq(hits, skip + 1, Min(skip + limit, Len(hits)))
    IN  [i \in 1..Len(ids) |-> Snapshot(ids[i])]

(* A schedule write that also marks the profile processed for the year    *)
(* of t.                                                                   *)
ScheduleWriteMarks(us, snap, t) ==
    LET nextBirthday == calculateNextBirthday(snap.birthday, snap.tz, t, tzOff)
    IN  IF nextBirthday = Null THEN us
        ELSE [us EXCEPT ![snap.id].next = nextBirthday,
                        ![snap.id].remActive = TRUE,
                        ![snap.id].lpy = getFullYear(t, tzOff)]

(* A schedule write issued also for a profile that is not schedulable. *)
ScheduleWriteAlways(us, snap, t) ==
    [us EXCEPT ![snap.id].next =
                  calculateNextBirthday(snap.birthday, snap.tz, t, tzOff),
               ![snap.id].remActive = TRUE]

(* A schedule write that replaces the whole reminder state. *)
ScheduleWriteResets(us, snap, t) ==
    LET nextBirthday == calculateNextBirthday(snap.birthday, snap.tz, t, tzOff)
    IN  IF nextBirthday = Null THEN us
        ELSE [us EXCEPT ![snap.id].next = nextBirthday,
                        ![snap.id].remActive = TRUE,
                        ![snap.id].lpy = Null]

(* The write of scheduleBirthdayReminder for the document copy `snap`,     *)
(* issued at instant t: nothing when the profile is not schedulable.       *)
ScheduleWrite(us, snap, t) ==
    LET nextBirthday == calculateNextBirthday(snap.birthday, snap.tz, t, tzOff)
    IN  IF nextBirthday = Null THEN us
        ELSE [us EXCEPT ![snap.id].next = nextBirthday,
                        ![snap.id].remActive = TRUE]

(* A cancel that also clears the nextReminder. *)
CancelWriteClears(us, u) ==
    IF us[u].present THEN [us EXCEPT ![u].remActive = FALSE, ![u].next = Null]
    ELSE us

(* The write of cancelBirthdayReminder. *)
CancelWrite(us, u) ==
    IF us[u].present THEN [us EXCEPT ![u].remActive = FALSE] ELSE us

(***************************************************************************)
(* A scan run.  Besides the locals of the code (now, skip, the page, the   *)
(* counters) a run keeps what it has done: eligible0 (the profiles its     *)
(* query matched when it started), within0 (those strictly inside the      *)
(* lookback window), fetched, visited and fired (the profiles of its       *)
(* pages, those whose item has ended, those it notified, in order) and     *)
(* failed (the document copies of the items that threw).  The record of a  *)
(* run that has returned is dropped when the next run starts.              *)
(* pc: idle, find (a page fetch is awaited), item (the synchronous head of *)
(* an item), mark (the lastProcessedYear write is awaited), sched and      *)
(* resched (the write of scheduleBirthdayReminder is awaited, after a      *)
(* notification and without one), done.                                    *)
(* aborted: the run's outer catch ran.  outcome: what the timer driver's   *)
(* handler logged when its await of the run ended (completed, or error     *)
(* when the awaited promise rejected).                                     *)
(***************************************************************************)
IdleRun ==
    [pc |-> "idle", now |-> Null, year |-> Null, batch |-> 0, skip |-> 0,
     page |-> <<>>, idx |-> 0, total |-> 0, processed |-> 0, result |-> Null,
     eligible0 |-> {}, within0 |-> {}, fetched |-> <<>>, visited |-> <<>>,
     fired |-> <<>>, failed |-> {}, aborted |-> FALSE, outcome |-> "none"]

InFlight(r) == runs[r].pc \notin {"idle", "done"}
NoneInFlight == \A r \in RunIds : ~InFlight(r)

(* A due-processor without the per-item guard. *)
AlreadyProcessedNever(lpy, currentYear) == FALSE

(* The guard of processBirthdayReminders: this year was already processed. *)
AlreadyProcessed(lpy, currentYear) == lpy = currentYear

(* The first awaited call of an item, by scan. *)
EnterItem(r) == IF r = "init" THEN "resched" ELSE "item"

(* A run that returns its notification count whatever the scan. *)
FinishWithNotified(r, run) ==
    [run EXCEPT !.pc = "done", !.page = <<>>, !.idx = 0,
                !.result = run.total,
                !.outcome = "completed"]

(* The value a run returns. *)
Finish(r, run) ==
    [run EXCEPT !.pc = "done", !.page = <<>>, !.idx = 0,
                !.result = IF r = "init" THEN run.processed ELSE run.total,
                !.outcome = "completed"]

(* A paging loop that fetches the next page at the same offset. *)
AdvanceSameOffset(r, run) ==
    LET seen == [run EXCEPT !.visited = Append(@, run.page[run.idx].id)]
    IN  IF run.idx < Len(run.page)
        THEN [seen EXCEPT !.idx = @ + 1, !.pc = EnterItem(r)]
        ELSE LET paged == [seen EXCEPT !.processed = @ + Len(run.page)]
             IN  IF Len(run.page) < run.batch
                 THEN Finish(r, paged)
                 ELSE [paged EXCEPT !.pc = "find", !.page = <<>>, !.idx = 0]

(* The end of an item (completed, or failed and caught): the next item of  *)
(* the page, or the end of the page.                                       *)
Advance(r, run) ==
    LET seen == [run EXCEPT !.visited = Append(@, run.page[run.idx].id)]
    IN  IF run.idx < Len(run.page)
        THEN [seen EXCEPT !.idx = @ + 1, !.pc = EnterItem(r)]
        ELSE LET paged == [seen EXCEPT !.processed = @ + Len(run.page),
                                       !.skip = @ + run.batch]
             IN  IF Len(run.page) < run.batch
                 THEN Finish(r, paged)
                 ELSE [paged EXCEPT !.pc = "find", !.page = <<>>, !.idx = 0]

Start(r, b, again) ==
    /\ runs[r].pc = "idle" \/ (again /\ runs[r].pc = "done")
    /\ LET currentYear == IF r = "init" THEN Null ELSE getFullYear(Now, tzOff)
           started ==
              [IdleRun EXCEPT !.pc = "find", !.batch = b,
                  !.now = IF r = "init" THEN Null ELSE Now,
                  !.year = currentYear,
                  !.eligible0 = {u \in Users : Filter(r, u, Now, currentYear)},
                  !.within0 = {u \in Users : r = "missed" /\ StrictlyMissed(u, Now, currentYear)}]
       IN  runs' = [x \in RunIds |->
                      IF x = r THEN started
                      ELSE IF again /\ ~InFlight(x) THEN IdleRun ELSE runs[x]]
    /\ UNCHANGED <<users, tick, notified, pending, owed, faults, calls, tzOff, ret,
                 migration, birthdayJobs>>

Find(r) ==
    /\ runs[r].pc = "find"
    /\ LET run  == runs[r]
           page == FindPage(r, run.now, run.year, run.skip, run.batch)
       IN  runs' = [runs EXCEPT ![r] =
              IF Len(page) = 0 THEN Finish(r, run)
              ELSE [run EXCEPT !.page = page, !.idx = 1, !.pc = EnterItem(r),
                               !.fetched = @ \o [i \in 1..Len(page) |-> page[i].id]]]
    /\ UNCHANGED <<users, tick, notified, pending, owed, faults, calls, tzOff, driver, ret,
                 migration, birthdayJobs>>

(* A page fetch whose failure escapes the run: its caller's await never    *)
(* ends normally and the handler does not complete.                        *)
FindFailEscapes(r) ==
    /\ runs[r].pc = "find"
    /\ faults < MaxFaults
    /\ faults' = faults + 1
    /\ runs' = [runs EXCEPT ![r] = [runs[r] EXCEPT !.pc = "failed", !.aborted = TRUE]]
    /\ UNCHANGED <<users, tick, notified, pending, owed, calls, tzOff, driver, ret,
                 migration, birthdayJobs>>

(* The page fetch fails: the outer catch logs the error and returns 0, so  *)
(* the driver's await ends normally.                                       *)
FindFail(r) ==
    /\ runs[r].pc = "find"
    /\ faults < MaxFaults
    /\ faults' = faults + 1
    /\ runs' = [runs EXCEPT ![r] =
          [runs[r] EXCEPT !.pc = "done", !.page = <<>>, !.idx = 0, !.result = 0,
                          !.aborted = TRUE, !.outcome = "completed"]]
    /\ UNCHANGED <<users, tick, notified, pending, owed, calls, tzOff, driver, ret,
                 migration, birthdayJobs>>

(* An item that marks the profile processed without notifying it. *)
ItemWithoutNotification(r) ==
    /\ runs[r].pc = "item"
    /\ LET run  == runs[r]
           snap == run.page[run.idx]
       IN  IF r = "due" /\ AlreadyProcessed(snap.lpy, run.year)
           THEN runs' = [runs EXCEPT ![r].pc = "resched"]
           ELSE runs' = [runs EXCEPT ![r].pc = "mark"]
    /\ UNCHANGED <<users, tick, notified, pending, owed, faults, calls, tzOff, driver, ret,
                 migration, birthdayJobs>>

(* The head of an item: the guard, then the notification. *)
Item(r) ==
    /\ runs[r].pc = "item"
    /\ LET run  == runs[r]
           snap == run.page[run.idx]
       IN  IF r = "due" /\ AlreadyProcessed(snap.lpy, run.year)
           THEN /\ runs' = [runs EXCEPT ![r].pc = "resched"]
                /\ UNCHANGED notified
           ELSE /\ notified' = [notified EXCEPT ![snap.id] = @ + 1]
                /\ runs' = [runs EXCEPT ![r].pc = "mark",
                                        ![r].fired = Append(@, snap.id)]
    /\ UNCHANGED <<users, tick, pending, owed, faults, calls, tzOff, driver, ret,
                 migration, birthdayJobs>>

(* The lastProcessedYear write. *)
Mark(r) ==
    /\ runs[r].pc = "mark"
    /\ LET run == runs[r]
       IN  /\ users' = [users EXCEPT ![run.page[run.idx].id].lpy = run.year]
           /\ runs' = [runs EXCEPT ![r].pc = "sched"]
    /\ UNCHANGED <<tick, notified, pending, owed, faults, calls, tzOff, driver, ret,
                 migration, birthdayJobs>>

(* A lastProcessedYear write whose failure reaches the run's outer catch,  *)
(* which returns 0.                                                        *)
MarkFailAborts(r) ==
    /\ runs[r].pc = "mark"
    /\ faults < MaxFaults
    /\ faults' = faults + 1
    /\ LET run == runs[r]
       IN  runs' = [runs EXCEPT ![r] =
              [run EXCEPT !.pc = "done", !.page = <<>>, !.idx = 0, !.result = 0,
                          !.failed = @ \cup {run.page[run.idx]}]]
    /\ UNCHANGED <<users, tick, notified, pending, owed, calls, tzOff, driver, ret,
                 migration, birthdayJobs>>

(* The lastProcessedYear write throws: the item's catch logs it. *)
MarkFail(r) ==
    /\ runs[r].pc = "mark"
    /\ faults < MaxFaults
    /\ faults' = faults + 1
    /\ LET run == runs[r]
       IN  runs' = [runs EXCEPT ![r] =
              Advance(r, [run EXCEPT !.failed = @ \cup {run.page[run.idx]}])]
    /\ UNCHANGED <<users, tick, notified, pending, owed, calls, tzOff, driver, ret,
                 migration, birthdayJobs>>

Counted(run) ==
    IF run.pc = "sched" THEN [run EXCEPT !.total = @ + 1] ELSE run

(* scheduleBirthdayReminder, awaited by a scan. *)
Sched(r) ==
    /\ runs[r].pc \in {"sched", "resched"}
    /\ LET run == runs[r]
       IN  /\ users' = ScheduleWrite(users, run.page[run.idx], Now)
           /\ runs' = [runs EXCEPT ![r] = Advance(r, Counted(run))]
    /\ UNCHANGED <<tick, notified, pending, owed, faults, calls, tzOff, driver, ret,
                 migration, birthdayJobs>>

(* A failed nextReminder write that reaches the item's catch: the item is *)
(* recorded as failed and not counted.                                     *)
SchedFailThrows(r) ==
    /\ runs[r].pc \in {"sched", "resched"}
    /\ faults < MaxFaults
    /\ faults' = faults + 1
    /\ LET run == runs[r]
       IN  runs' = [runs EXCEPT ![r] =
              Advance(r, [run EXCEPT !.failed = @ \cup {run.page[run.idx]}])]
    /\ UNCHANGED <<users, tick, notified, pending, owed, calls, tzOff, driver, ret,
                 migration, birthdayJobs>>

(* The write of scheduleBirthdayReminder throws: it is caught inside       *)
(* scheduleBirthdayReminder, which returns null.                           *)
SchedFail(r) ==
    /\ runs[r].pc \in {"sched", "resched"}
    /\ faults < MaxFaults
    /\ faults' = faults + 1
    /\ runs' = [runs EXCEPT ![r] = Advance(r, Counted(runs[r]))]
    /\ UNCHANGED <<users, tick, notified, pending, owed, calls, tzOff, driver, ret,
                 migration, birthdayJobs>>

Tick ==
    /\ tick < MaxTick
    /\ tick' = tick + 1
    /\ UNCHANGED <<users, runs, notified, pending, owed, faults, calls, tzOff, driver, ret,
                 migration, birthdayJobs>>

(* The process dies and is started again: the store is all that is kept.   *)
Crash ==
    /\ ~NoneInFlight
    /\ faults < MaxFaults
    /\ faults' = faults + 1
    /\ owed' = owed \cup UNION {runs[r].eligible0 : r \in {x \in {"due", "missed"} : InFlight(x)}}
    /\ runs' = [r \in RunIds |-> IdleRun]
    /\ pending' = {}
    /\ UNCHANGED <<users, tick, notified, calls, tzOff, driver, ret,
                 migration, birthdayJobs>>

(***************************************************************************)
(* The profile mutations of UserService.  Each awaits its own write to the *)
(* document and then calls the reminder service without awaiting it: the   *)
(* reminder write is applied by the store at some later moment.            *)
(***************************************************************************)
ScheduleCall(snap) == [op |-> "schedule", snap |-> snap]
CancelCall(u) ==
    [op |-> "cancel",
     snap |-> [id |-> u, birthday |-> Null, tz |-> FALSE, next |-> Null,
               lpy |-> Null]]

createUser(u, birthday) ==
    /\ ~users[u].present
    /\ calls < MaxCalls
    /\ calls' = calls + 1
    /\ users' = [users EXCEPT ![u] = UserDocument(birthday, Null, Null)]
    /\ pending' = pending \cup
          {ScheduleCall([id |-> u, birthday |-> birthday, tz |-> TRUE,
                         next |-> Null, lpy |-> Null])}
    /\ UNCHANGED <<tick, runs, notified, owed, faults, tzOff, driver, ret,
                 migration, birthdayJobs>>

(* The values an update may carry for the birthday: a date, or nothing    *)
(* (an update of other fields only).                                       *)
Payloads == Birthdays \cup {Null}

(* An update that triggers the recompute only when it changes the stored   *)
(* birthday.                                                               *)
updateUserIfChanged(u, birthday) ==
    /\ calls < MaxCalls
    /\ calls' = calls + 1
    /\ LET found == users[u].present /\ birthday # Null
       IN  /\ users' = IF found THEN [users EXCEPT ![u].birthday = birthday]
                       ELSE users
           /\ pending' = IF found /\ birthday # users[u].birthday
                         THEN pending \cup
                                {ScheduleCall([id |-> u, birthday |-> birthday,
                                               tz |-> users[u].tz,
                                               next |-> users[u].next,
                                               lpy |-> users[u].lpy])}
                         ELSE pending
    /\ UNCHANGED <<tick, runs, notified, owed, faults, tzOff, driver, ret,
                 migration, birthdayJobs>>

(* updateUser(u, updateData): the document, if it exists, takes the        *)
(* birthday the update carries; the reminder service is called with the    *)
(* updated document when there is one and the update carries a birthday.   *)
updateUser(u, birthday) ==
    /\ calls < MaxCalls
    /\ calls' = calls + 1
    /\ LET found == users[u].present /\ birthday # Null
       IN  /\ users' = IF found THEN [users EXCEPT ![u].birthday = birthday]
                       ELSE users
           /\ pending' = IF found
                         THEN pending \cup
                                {ScheduleCall([id |-> u, birthday |-> birthday,
                                               tz |-> users[u].tz,
                                               next |-> users[u].next,
                                               lpy |-> users[u].lpy])}
                         ELSE pending
    /\ UNCHANGED <<tick, runs, notified, owed, faults, tzOff, driver, ret,
                 migration, birthdayJobs>>

(* deleteUser(u): the soft delete, and the cancel call when the document   *)
(* was found.                                                              *)
deleteUser(u) ==
    /\ calls < MaxCalls
    /\ calls' = calls + 1
    /\ users' = IF users[u].present THEN [users EXCEPT ![u].active = FALSE]
                ELSE users
    /\ pending' = IF users[u].present THEN pending \cup {CancelCall(u)}
                  ELSE pending
    /\ UNCHANGED <<tick, runs, notified, owed, faults, tzOff, driver, ret,
                 migration, birthdayJobs>>

(* The store applies the write of a reminder call that was not awaited. *)
ApplyPending(call) ==
    /\ call \in pending
    /\ pending' = pending \ {call}
    /\ users' = IF call.op = "schedule"
                THEN ScheduleWrite(users, call.snap, Now)
                ELSE CancelWrite(users, call.snap.id)
    /\ UNCHANGED <<tick, runs, notified, owed, faults, calls, tzOff, driver, ret,
                 migration, birthdayJobs>>

(* cancelBirthdayReminder(u), awaited by its caller: true when the store   *)
(* found the document.                                                     *)
cancelBirthdayReminder(u) ==
    /\ users' = CancelWrite(users, u)
    /\ ret' = [op |-> "cancel", id |-> u, value |-> users[u].present]
    /\ UNCHANGED <<tick, runs, notified, pending, owed, faults, calls, tzOff, driver,
                 migration, birthdayJobs>>

(* cancelBirthdayReminder(u) when the store raises an error: caught,       *)
(* false.                                                                  *)
cancelBirthdayReminderFail(u) ==
    /\ ret' = [op |-> "cancel", id |-> u, value |-> FALSE]
    /\ UNCHANGED <<users, tick, runs, notified, pending, owed, faults, calls, tzOff, driver,
                 migration, birthdayJobs>>

(***************************************************************************)
(* The migration script: found is the result of its query, i the loop      *)
(* index (from 1), currentBatch the ids collected, sent the batches whose   *)
(* updateMany was issued, in order, processedCount the sum of the           *)
(* modifiedCounts.  pc: idle, loop (the for loop, before the push of item   *)
(* i), write (updateMany is awaited), done.                                 *)
(***************************************************************************)
(***************************************************************************)
(* The in-process timer scheduler (the BirthdayService that keeps one cron *)
(* task per user).  map is the birthdayJobs map (user id to task, a task    *)
(* being named by its position in tasks); tasks are the cron tasks created  *)
(* so far, each with the user it was created for and whether it runs.       *)
(***************************************************************************)
NoJobs == [map |-> [u \in Users |-> Null], tasks |-> <<>>]

(* A cancel that forgets the task without stopping it. *)
TimerCancelForgets(js, u) ==
    IF js.map[u] # Null THEN [js EXCEPT !.map[u] = Null] ELSE js

(* The body of cancelBirthdayReminder: stop and delete the user's task, if  *)
(* there is one.                                                            *)
TimerCancel(js, u) ==
    IF js.map[u] # Null
    THEN [js EXCEPT !.tasks[js.map[u]].running = FALSE, !.map[u] = Null]
    ELSE js

(* scheduleBirthdayReminder(user): nothing for a user without birthday or  *)
(* timezone; otherwise the user's task is cancelled, a new one is created   *)
(* and stored.                                                              *)
timerScheduleBirthdayReminder(u, schedulable) ==
    /\ Len(birthdayJobs.tasks) < MaxJobs
    /\ birthdayJobs' =
          IF ~schedulable THEN birthdayJobs
          ELSE LET cancelled == TimerCancel(birthdayJobs, u)
               IN  [cancelled EXCEPT
                      !.tasks = Append(@, [user |-> u, running |-> TRUE]),
                      !.map[u] = Len(cancelled.tasks) + 1]
    /\ UNCHANGED <<users, tick, runs, notified, pending, owed, faults, calls,
                   tzOff, driver, ret, migration>>

(* scheduleBirthdayReminder(user) when cron.schedule throws: the user's    *)
(* task has been cancelled, none is stored, the error is logged.            *)
timerScheduleThrows(u) ==
    /\ birthdayJobs' = TimerCancel(birthdayJobs, u)
    /\ UNCHANGED <<users, tick, runs, notified, pending, owed, faults, calls,
                   tzOff, driver, ret, migration>>

timerCancelBirthdayReminder(u) ==
    /\ birthdayJobs' = TimerCancel(birthdayJobs, u)
    /\ UNCHANGED <<users, tick, runs, notified, pending, owed, faults, calls,
                   tzOff, driver, ret, migration>>

timerUpdateBirthdayReminder(u, schedulable) ==
    timerScheduleBirthdayReminder(u, schedulable)

MigrationAtStart ==
    [pc |-> "idle", found |-> <<>>, i |-> 0, currentBatch |-> <<>>,
     sent |-> <<>>, processedCount |-> 0]

(* The query of the migration: the documents without birthdayReminder. *)
WithoutReminder(u) == users[u].present /\ ~users[u].reminder

(* The $set of the migration's updateMany on one document. *)
DefaultReminder(doc) ==
    [doc EXCEPT !.reminder = TRUE, !.lpy = Null, !.next = Null,
                !.remActive = TRUE]

migrateFind ==
    /\ migration.pc = "idle"
    /\ LET found == SelectSeq(IdSeq, WithoutReminder)
       IN  migration' =
              IF Len(found) = 0 THEN [migration EXCEPT !.pc = "done"]
              ELSE [migration EXCEPT !.pc = "loop", !.found = found, !.i = 1]
    /\ UNCHANGED <<users, tick, runs, notified, pending, owed, faults, calls,
                   tzOff, driver, ret, birthdayJobs>>

(* A loop body that sends a batch only when it is full. *)
migratePushFullOnly ==
    /\ migration.pc = "loop"
    /\ LET batch == Append(migration.currentBatch, migration.found[migration.i])
       IN  migration' =
              IF Len(batch) >= MigrationBatchSize
              THEN [migration EXCEPT !.currentBatch = batch, !.pc = "write"]
              ELSE IF migration.i = Len(migration.found)
                   THEN [migration EXCEPT !.currentBatch = batch, !.pc = "done"]
                   ELSE [migration EXCEPT !.currentBatch = batch, !.i = @ + 1]
    /\ UNCHANGED <<users, tick, runs, notified, pending, owed, faults, calls,
                   tzOff, driver, ret, birthdayJobs>>

(* The head of the loop body: the push, and the test for a full batch or   *)
(* the last item.                                                          *)
migratePush ==
    /\ migration.pc = "loop"
    /\ LET batch == Append(migration.currentBatch, migration.found[migration.i])
       IN  migration' =
              IF Len(batch) >= MigrationBatchSize \/ migration.i = Len(migration.found)
              THEN [migration EXCEPT !.currentBatch = batch, !.pc = "write"]
              ELSE [migration EXCEPT !.currentBatch = batch, !.i = @ + 1]
    /\ UNCHANGED <<users, tick, runs, notified, pending, owed, faults, calls,
                   tzOff, driver, ret, birthdayJobs>>

(* updateMany on the ids of currentBatch, then the reset of the batch. *)
migrateUpdateMany ==
    /\ migration.pc = "write"
    /\ LET ids      == {migration.currentBatch[k] : k \in 1..Len(migration.currentBatch)}
           written  == [u \in Users |->
                          IF u \in ids /\ users[u].present
                          THEN DefaultReminder(users[u]) ELSE users[u]]
           modified == Cardinality({u \in Users : written[u] # users[u]})
       IN  /\ users' = written
           /\ migration' =
                 [migration EXCEPT
                    !.sent = Append(@, migration.currentBatch),
                    !.processedCount = @ + modified,
                    !.currentBatch = <<>>,
                    !.i = IF migration.i = Len(migration.found) THEN @ ELSE @ + 1,
                    !.pc = IF migration.i = Len(migration.found) THEN "done" ELSE "loop"]
    /\ UNCHANGED <<tick, runs, notified, pending, owed, faults, calls, tzOff,
                   driver, ret, birthdayJobs>>

(***************************************************************************)
(* The timer driver (initializeCronJobs) of one process: elapsed is the    *)
(* time since its start in seconds (counted up to the startup delay),      *)
(* armed tells whether the startup timer is still pending, and the         *)
(* counters tell how often each job handler has run; lookback is the       *)
(* argument of the last processMissedReminders call.                       *)
(* ret is the value returned by the last reminder-service call that a      *)
(* caller awaited.                                                         *)
(***************************************************************************)
StartupDelay == 5

DriverAtStart ==
    [elapsed |-> 0, armed |-> TRUE, missedCalls |-> 0, hourlyTicks |-> 0,
     dueCalls |-> 0, initCalls |-> 0, lookback |-> Null]

NoReturn == [op |-> "none", id |-> 0, value |-> FALSE]

(***************************************************************************)
(* Specifications.                                                         *)
(***************************************************************************)
PrevYear == getFullYear(ClockStart, 0) - 1

(* The reminder a profile holds before its birthday of this year: the      *)
(* occurrence computed after last year's.                                  *)
ScheduledFor(birthday) ==
    calculateNextBirthday(birthday, TRUE, DateUTC(PrevYear, 11, 31, 0, 0), 0)

Overdue == UserDocument(BirthdayA, ScheduledFor(BirthdayA), PrevYear)
Upcoming == UserDocument(BirthdayB, ScheduledFor(BirthdayB), PrevYear)
NeverProcessed == UserDocument(BirthdayA, ScheduledFor(BirthdayA), Null)
Uninitialized == UserDocument(BirthdayB, Null, Null)
NoTimezone == [Uninitialized EXCEPT !.tz = FALSE]
NoBirthday == [Overdue EXCEPT !.birthday = Null]
Cancelled == [Overdue EXCEPT !.remActive = FALSE]
(* A profile whose reminder is the occurrence of last year, never fired.   *)
Belated ==
    UserDocument(BirthdayB,
                 calculateNextBirthday(BirthdayB, TRUE,
                                       DateUTC(PrevYear - 1, 11, 31, 0, 0), 0),
                 PrevYear - 1)
Unmigrated ==
    [UserDocument(BirthdayA, Null, Null) EXCEPT !.reminder = FALSE,
                                                 !.remActive = FALSE]
UnmigratedDeleted == [Unmigrated EXCEPT !.active = FALSE]

InitWith(documents) ==
    /\ users \in [Users -> documents]
    /\ tick = 0
    /\ runs = [r \in RunIds |-> IdleRun]
    /\ notified = [u \in Users |-> 0]
    /\ pending = {}
    /\ owed = {}
    /\ faults = 0
    /\ calls = 0
    /\ tzOff \in ServerOffsets
    /\ driver = DriverAtStart
    /\ ret = NoReturn
    /\ migration = MigrationAtStart
    /\ birthdayJobs = NoJobs

(* A timer that starts a scan once only. *)
StartAloneOnce(r, b) == NoneInFlight /\ Start(r, b, FALSE) /\ UNCHANGED driver

(* Runs one after the other, a store that accepts every call. *)
StartAlone(r, b) == NoneInFlight /\ Start(r, b, TRUE) /\ UNCHANGED driver

Init == InitWith({Overdue, Upcoming, NeverProcessed, Uninitialized})

Next ==
    \/ Tick
    \/ \E r \in RunIds, b \in 1..MaxBatch : StartAlone(r, b)
    \/ \E r \in RunIds : Find(r)
    \/ \E r \in RunIds : Item(r)
    \/ \E r \in RunIds : Mark(r)
    \/ \E r \in RunIds : Sched(r)

Spec == Init /\ [][Next]_vars

(* Runs one after the other; store calls may fail. *)
(* The store holds some overdue profiles, then some uninitialized ones. *)
InitFail ==
    /\ InitWith({Overdue, Uninitialized})
    /\ \A u, v \in Users : u < v /\ users[u] = Uninitialized => users[v] = Uninitialized

NextFail ==
    \/ Next
    \/ \E r \in RunIds : FindFail(r)
    \/ \E r \in RunIds : MarkFail(r)
    \/ \E r \in RunIds : SchedFail(r)

SpecFail == InitFail /\ [][NextFail]_vars

(* Runs one after the other; the process may die and start again. *)
InitCrash == InitWith({Overdue, Upcoming})

NextCrash ==
    \/ Next
    \/ Crash

SpecCrash == InitCrash /\ [][NextCrash]_vars

(* Overlapping runs and profile mutations against the same store, within  *)
(* one hour of one process: each scan is started at most once.            *)
InitConc ==
    /\ InitWith({Overdue, NoDocument})
    /\ \A u, v \in Users : u < v /\ ~users[u].present => ~users[v].present

StartOnce(r, b) ==
    /\ Cardinality({x \in RunIds : InFlight(x)}) < MaxOverlap
    /\ Start(r, b, FALSE)
    /\ UNCHANGED driver

NextConc ==
    \/ \E r \in RunIds, b \in 1..MaxBatch : StartOnce(r, b)
    \/ \E r \in RunIds : Find(r)
    \/ \E r \in RunIds : Item(r)
    \/ \E r \in RunIds : Mark(r)
    \/ \E r \in RunIds : Sched(r)
    \/ \E u \in Users, b \in Birthdays : createUser(u, b)
    \/ \E u \in Users, b \in Birthdays : updateUser(u, b)
    \/ \E u \in Users : deleteUser(u)
    \/ \E call \in pending : ApplyPending(call)

SpecConc == InitConc /\ [][NextConc]_vars

(* The hourly due-processor alone, run after run, against a store whose    *)
(* calls fail a bounded number of times.  The timer fires again after      *)
(* every run, and an awaited store call that can succeed does in the end.  *)
InitLive == InitWith({Overdue, Upcoming, NoBirthday})

NextLive ==
    \/ Tick
    \/ \E b \in 1..MaxBatch : StartAlone("due", b)
    \/ Find("due")
    \/ Item("due")
    \/ Mark("due")
    \/ Sched("due")
    \/ FindFail("due")
    \/ MarkFail("due")
    \/ SchedFail("due")

(* The await of scheduleBirthdayReminder ends: weak fairness of its step,  *)
(* with the step's enabling condition written out.                         *)
SchedAwaited == runs["due"].pc \in {"sched", "resched"}

FairSched ==
    \/ []<>(~SchedAwaited)
    \/ []<><<Sched("due") \/ SchedFail("due")>>_vars

FairLive ==
    /\ WF_vars(\E b \in 1..MaxBatch : StartAlone("due", b))
    /\ WF_vars(Find("due") \/ FindFail("due"))
    /\ WF_vars(Item("due"))
    /\ WF_vars(Mark("due") \/ MarkFail("due"))
    /\ FairSched

SpecLive == InitLive /\ [][NextLive]_vars /\ FairLive

(* The three scans, one after the other, over a store that holds profiles *)
(* that stay in a scan's query after it has processed them (no birthday,    *)
(* no timezone); every awaited store call ends, with a value or an error.   *)
InitTerm == InitWith({Overdue, NoTimezone, NoBirthday})

NextTerm ==
    \/ \E r \in RunIds, b \in 1..MaxBatch : StartAlone(r, b)
    \/ \E r \in RunIds : Find(r)
    \/ \E r \in RunIds : Item(r)
    \/ \E r \in RunIds : Mark(r)
    \/ \E r \in RunIds : Sched(r)
    \/ \E r \in RunIds : FindFail(r)
    \/ \E r \in RunIds : MarkFail(r)
    \/ \E r \in RunIds : SchedFail(r)

FairTerm ==
    \A r \in RunIds :
        /\ WF_vars(Find(r) \/ FindFail(r))
        /\ WF_vars(Item(r))
        /\ WF_vars(Mark(r) \/ MarkFail(r))
        /\ \/ []<>(runs[r].pc \notin {"sched", "resched"})
           \/ []<><<Sched(r) \/ SchedFail(r)>>_vars

SpecTerm == InitTerm /\ [][NextTerm]_vars /\ FairTerm

(* Runs one after the other over a store that holds reminders left at    *)
(* last year's occurrence.                                                 *)
InitBelated == InitWith({Belated, Overdue})

SpecBelated == InitBelated /\ [][Next]_vars

(* Runs one after the other with an advancing clock, the profile          *)
(* mutations and their recomputes and cancellations between their steps.   *)
InitYears ==
    /\ InitWith({Belated, Overdue, NoDocument})
    /\ users[1] = Belated /\ users[2] = Overdue /\ users[NUsers] = NoDocument

NextYears ==
    \/ Next
    \/ \E u \in Users, b \in Birthdays : createUser(u, b)
    \/ \E u \in Users, b \in Payloads : updateUser(u, b)
    \/ \E u \in Users : deleteUser(u)
    \/ \E call \in pending : ApplyPending(call)

SpecYears == InitYears /\ [][NextYears]_vars

(* The timer scheduler called in any order. *)
InitTimer == InitWith({Overdue})

NextTimer ==
    \/ \E u \in Users, s \in BOOLEAN : timerScheduleBirthdayReminder(u, s)
    \/ \E u \in Users : timerScheduleThrows(u)
    \/ \E u \in Users : timerCancelBirthdayReminder(u)
    \/ \E u \in Users, s \in BOOLEAN : timerUpdateBirthdayReminder(u, s)

SpecTimer == InitTimer /\ [][NextTimer]_vars

(* The migration script run once against a store in which some documents  *)
(* have no birthdayReminder.                                               *)
InitMigrate == InitWith({Unmigrated, UnmigratedDeleted, Overdue, Cancelled})

NextMigrate ==
    \/ migrateFind
    \/ migratePush
    \/ migrateUpdateMany

SpecMigrate == InitMigrate /\ [][NextMigrate]_vars

(* The profile mutations and the reminder service called directly, no     *)
(* scan running.                                                           *)
InitApi == InitWith({Overdue, Cancelled, NoDocument})

NextApi ==
    \/ \E u \in Users, b \in Birthdays : createUser(u, b)
    \/ \E u \in Users, b \in Payloads : updateUser(u, b)
    \/ \E u \in Users : deleteUser(u)
    \/ \E call \in pending : ApplyPending(call)
    \/ \E u \in Users : cancelBirthdayReminder(u)
    \/ \E u \in Users : cancelBirthdayReminderFail(u)

SpecApi == InitApi /\ [][NextApi]_vars

(***************************************************************************)
(* One process from its start: initializeCronJobs schedules the hourly     *)
(* job, arms the startup timer and awaits the initialization sweep; store  *)
(* calls may fail.  An hourly tick comes when the previous due run has     *)
(* returned.                                                               *)
(***************************************************************************)
(* Time passes, once the startup code has run. *)
Elapse ==
    /\ driver.initCalls = 1
    /\ driver.elapsed < StartupDelay
    /\ driver' = [driver EXCEPT !.elapsed = @ + 1]
    /\ UNCHANGED <<users, tick, runs, notified, pending, owed, faults, calls, tzOff, ret,
                 migration, birthdayJobs>>

(* initializeBirthdayReminders, called by the startup code. *)
initializeBirthdayReminders(b) ==
    /\ driver.initCalls = 0
    /\ Start("init", b, FALSE)
    /\ driver' = [driver EXCEPT !.initCalls = 1]

(* A startup timer that fires again and again. *)
setupMissedRemindersJobRepeating(b) ==
    /\ driver.armed
    /\ driver.elapsed >= StartupDelay
    /\ Start("missed", b, FALSE)
    /\ driver' = [driver EXCEPT !.missedCalls = @ + 1,
                                !.lookback = LookbackHours]

(* The callback of setupMissedRemindersJob's timer. *)
setupMissedRemindersJob(b) ==
    /\ driver.armed
    /\ driver.elapsed >= StartupDelay
    /\ Start("missed", b, FALSE)
    /\ driver' = [driver EXCEPT !.armed = FALSE, !.missedCalls = @ + 1,
                                !.lookback = LookbackHours]

(* The callback of setupHourlyJob's schedule, at an hourly tick. *)
setupHourlyJob(b) ==
    /\ driver.hourlyTicks < MaxHours
    /\ ~InFlight("due")
    /\ Start("due", b, TRUE)
    /\ driver' = [driver EXCEPT !.hourlyTicks = @ + 1, !.dueCalls = @ + 1]

NextDriver ==
    \/ Elapse
    \/ \E b \in 1..MaxBatch : initializeBirthdayReminders(b)
    \/ \E b \in 1..MaxBatch : setupMissedRemindersJob(b)
    \/ \E b \in 1..MaxBatch : setupHourlyJob(b)
    \/ \E r \in RunIds : Find(r)
    \/ \E r \in RunIds : Item(r)
    \/ \E r \in RunIds : Mark(r)
    \/ \E r \in RunIds : Sched(r)
    \/ \E r \in RunIds : FindFail(r)
    \/ \E r \in RunIds : MarkFail(r)
    \/ \E r \in RunIds : SchedFail(r)

(* The store holds an overdue profile first and an uninitialized one last. *)
InitDriver ==
    /\ InitFail
    /\ users[1] = Overdue
    /\ users[NUsers] = Uninitialized

SpecDriver == InitDriver /\ [][NextDriver]_vars

(* Runs one after the other over a store that also holds profiles without *)
(* a timezone or without a birthday and profiles whose reminder was        *)
(* cancelled.                                                              *)
InitMixed == InitWith({Overdue, Upcoming, NoTimezone, NoBirthday, Cancelled})

SpecMixed == InitMixed /\ [][Next]_vars

(* Overlapping runs over a store that holds profiles without a            *)
(* nextReminder and profiles whose reminder lies within the next hour.     *)
InitShift == InitWith({Uninitialized, Upcoming})

NextShift ==
    \/ \E r \in RunIds, b \in 1..MaxBatch : StartOnce(r, b)
    \/ \E r \in RunIds : Find(r)
    \/ \E r \in RunIds : Item(r)
    \/ \E r \in RunIds : Mark(r)
    \/ \E r \in RunIds : Sched(r)

SpecShift == InitShift /\ [][NextShift]_vars

(***************************************************************************)
(* calculateNextBirthday on its own: the store holds profiles whose        *)
(* birthdays are drawn from CalcBirthdays, the clock reads one of          *)
(* CalcInstants (tick is its index), the server runs in one of CalcOffsets *)
(* and calculate(u) persists the value computed for profile u.             *)
(***************************************************************************)
CalcOffsets == {0 - 5 * SecondsPerHour, 0, 7 * SecondsPerHour}

CalcBirthdays ==
    {DateUTC(1990, 4, 15, 0, 0),      \* 15 May
     DateUTC(1992, 1, 29, 0, 0),      \* 29 Feb
     DateUTC(1992, 2, 1, 0, 0),       \* 1 Mar, 29 Feb five hours west
     DateUTC(1990, 11, 31, 0, 0)}     \* 31 Dec

CalcInstants ==
    <<DateUTC(2023, 1, 28, 12, 0),
      DateUTC(2023, 2, 1, 9, 0),
      DateUTC(2023, 2, 1, 9, 0) + 30,
      DateUTC(2023, 11, 31, 23, 30),
      DateUTC(2024, 1, 29, 8, 59),
      DateUTC(2024, 1, 29, 9, 0),
      DateUTC(2024, 2, 1, 10, 0),
      DateUTC(2024, 4, 15, 3, 0),
      DateUTC(2024, 4, 15, 9, 0) + 30,
      DateUTC(2024, 4, 15, 12, 0),
      DateUTC(1999, 11, 31, 15, 0),
      DateUTC(2027, 5, 1, 0, 0)>>

CalcNow == CalcInstants[tick]

(* The offset of a profile timezone east of UTC (Asia/Jakarta). *)
ZoneEast == 7 * SecondsPerHour

(* The profiles of the store: one per birthday in a timezone at UTC, and   *)
(* one of 15 May in the eastern timezone.                                  *)
CalcProfiles ==
    {UserDocument(b, Null, Null) : b \in CalcBirthdays}
        \cup {[UserDocument(DateUTC(1990, 4, 15, 0, 0), Null, Null)
                  EXCEPT !.zone = ZoneEast]}

InitCalc ==
    /\ users \in [Users -> CalcProfiles]
    /\ tick \in 1..Len(CalcInstants)
    /\ runs = [r \in RunIds |-> IdleRun]
    /\ notified = [u \in Users |-> 0]
    /\ pending = {}
    /\ owed = {}
    /\ faults = 0
    /\ calls = 0
    /\ tzOff \in CalcOffsets
    /\ driver = DriverAtStart
    /\ ret = NoReturn
    /\ migration = MigrationAtStart
    /\ birthdayJobs = NoJobs

calculate(u) ==
    /\ users[u].next = Null
    /\ users' = ScheduleWrite(users, Snapshot(u), CalcNow)
    /\ UNCHANGED <<tick, runs, notified, pending, owed, faults, calls, tzOff, driver, ret,
                 migration, birthdayJobs>>

NextCalc == \E u \in Users : calculate(u)

SpecCalc == InitCalc /\ [][NextCalc]_vars

(***************************************************************************)
(* Properties.                                                             *)
(***************************************************************************)
Range(seq) == {seq[i] : i \in 1..Len(seq)}
Count(x, seq) == Cardinality({i \in 1..Len(seq) : seq[i] = x})
Scans == {"due", "missed"}
Ids(snaps) == {snap.id : snap \in snaps}

(* C1 (as claimed): a run that has returned has visited every profile its  *)
(* query matched when it started, here for a number of matches that is not *)
(* a multiple of the page size.                                            *)
C1_PaginationComplete ==
    \A r \in Scans :
        (runs[r].pc = "done" /\ Cardinality(runs[r].eligible0) % runs[r].batch # 0)
            => runs[r].eligible0 \subseteq Range(runs[r].visited)

(* C2: over runs that do not overlap, in one calendar year and with a      *)
(* store that accepts every call, no profile is notified twice.            *)
C2_AtMostOncePerYear ==
    \A u \in Users : notified[u] <= 1

(* C2's case: a profile notified by an earlier run was selected again by a *)
(* later due run, which visited it without firing.                         *)
C2_Witness ==
    \E u \in Users :
        /\ notified[u] = 1
        /\ runs["due"].pc = "done"
        /\ u \in Range(runs["due"].visited)
        /\ u \notin Range(runs["due"].fired)

(* C3 (as claimed): a reminder fired by one of two overlapping runs is not *)
(* fired by the other.                                                     *)
C3_OverlapFiresOnce ==
    \A u \in Users :
        ~(u \in Range(runs["due"].fired) /\ u \in Range(runs["missed"].fired))

(* C4 (as claimed): a missed-reminder run that has returned has notified   *)
(* exactly once every profile whose reminder lay strictly inside the       *)
(* lookback window, unprocessed this year, when it started.                *)
C4_RecoveryExactlyOnce ==
    runs["missed"].pc = "done" =>
        \A u \in runs["missed"].within0 : Count(u, runs["missed"].fired) = 1

(* C5: an item whose lastProcessedYear write throws does not end the run:  *)
(* a run that has returned has ended the item of every profile of every    *)
(* page it fetched, each of them is marked processed for the run's year    *)
(* unless its item threw, and a profile whose item threw keeps the         *)
(* lastProcessedYear and nextReminder it was fetched with, so that the     *)
(* due-processor's query still selects it, unprocessed.                    *)
C5_ItemFailureIsLocal ==
    \A r \in Scans :
        /\ runs[r].pc = "done" => runs[r].visited = runs[r].fetched
        /\ \A u \in Range(runs[r].visited) \ Ids(runs[r].failed) :
               users[u].lpy = runs[r].year
        /\ \A snap \in runs[r].failed :
               /\ users[snap.id].lpy = snap.lpy
               /\ users[snap.id].next = snap.next
               /\ users[snap.id].lpy # runs[r].year
               /\ DueFilter(snap.id, Now)

(* C5's case: the first item of a run threw and the run went on to process *)
(* another profile before it returned.                                     *)
C5_Witness ==
    \E r \in Scans :
        /\ runs[r].pc = "done"
        /\ Len(runs[r].visited) >= 2
        /\ runs[r].visited[1] \in Ids(runs[r].failed)
        /\ runs[r].visited[2] \notin Ids(runs[r].failed)
        /\ notified[runs[r].visited[2]] = 1

(* C6: after the process died inside a scan, every profile that the        *)
(* interrupted run's query had matched has been notified or is still       *)
(* matched by the due-processor's query and not marked processed for the   *)
(* current year.                                                           *)
C6_NothingLostByCrash ==
    \A u \in owed :
        \/ notified[u] >= 1
        \/ /\ DueFilter(u, Now)
           /\ users[u].lpy # getFullYear(Now, tzOff)

(* C6's case: the process died in a run after it notified one profile and  *)
(* before it reached another.                                              *)
C6_Witness ==
    /\ \E u \in owed : notified[u] = 0
    /\ \E u \in owed : notified[u] >= 1 /\ users[u].lpy # getFullYear(Now, tzOff)

(* The step that ends the write of scheduleBirthdayReminder for profile u  *)
(* in run r. *)
SchedEnds(r, u) ==
    /\ runs[r].pc \in {"sched", "resched"}
    /\ runs'[r].pc # runs[r].pc \/ runs'[r].idx # runs[r].idx
    /\ runs'[r].pc # "idle"
    /\ u = runs[r].page[runs[r].idx].id

(* C7 (as claimed): when a pass has touched an active reminder, its        *)
(* nextReminder is not before the current instant.                         *)
C7_TouchedReminderNotPast ==
    [][\A r \in RunIds, u \in Users :
          (SchedEnds(r, u) /\ users'[u].remActive) => users'[u].next >= Now]_vars

(* C8 (as claimed): when the due-processor has fired for a profile, its    *)
(* lastProcessedYear is the current year and its nextReminder is the       *)
(* following year's occurrence, later than the one fired.                  *)
C8_FiredThenNextYear ==
    [][\A u \in Users :
          (SchedEnds("due", u) /\ runs["due"].pc = "sched") =>
              /\ users'[u].lpy = runs["due"].year
              /\ users'[u].next > users[u].next
              /\ getFullYear(users'[u].next, tzOff) = runs["due"].year + 1]_vars

(* C9 (as claimed): when the due-processor selects a profile already       *)
(* processed this year it neither notifies nor counts it, and persists     *)
(* next year's nextReminder.                                               *)
C9_SkippedThenNextYear ==
    [][\A u \in Users :
          (SchedEnds("due", u) /\ runs["due"].pc = "resched") =>
              /\ notified'[u] = notified[u]
              /\ runs'["due"].total = runs["due"].total
              /\ getFullYear(users'[u].next, tzOff) = runs["due"].year + 1]_vars

(* C10 (as claimed): a profile that was removed and whose reminder was     *)
(* deactivated stays deactivated and is not notified.                      *)
C10_RemovedStaysInactive ==
    [][\A u \in Users :
          (users[u].present /\ ~users[u].active /\ ~users[u].remActive) =>
              /\ ~users'[u].remActive
              /\ notified'[u] = notified[u]]_vars

(* C11 (as claimed): a run returns the number of notifications it has     *)
(* counted, also when a later page fetch failed.                           *)
C11_AbortReturnsPartialCount ==
    \A r \in Scans :
        runs[r].pc = "done" => runs[r].result = runs[r].total

(* C12 (as claimed): the timer driver sees a due run that aborted on a     *)
(* store failure as a failed run.                                          *)
C12_AbortSurfacedToDriver ==
    (runs["due"].pc = "done" /\ runs["due"].aborted)
        => runs["due"].outcome = "error"

(* C13 (as claimed): no state lies between the lastProcessedYear write of  *)
(* an item and its nextReminder write.                                     *)
C13_OneWritePerProfile ==
    \A r \in Scans :
        runs[r].pc = "sched" =>
            LET snap == runs[r].page[runs[r].idx]
            IN  ~(/\ snap.lpy # runs[r].year
                  /\ users[snap.id].lpy = runs[r].year
                  /\ users[snap.id].next = snap.next)

(* C16 (as claimed): after an initialization sweep met no failure, every   *)
(* profile that had no nextReminder when it started has one.               *)
C16_InitSweepComplete ==
    runs["init"].pc = "done" =>
        \A u \in runs["init"].eligible0 :
            (users[u].birthday # Null /\ users[u].tz) => users[u].next # Null

(* A step of the initialization sweep. *)
InitSweepStep ==
    /\ runs["init"].pc \in {"find", "resched"}
    /\ runs'["init"] # runs["init"]

(* C17: a step of the initialization sweep notifies nobody, leaves every   *)
(* lastProcessedYear as it was, changes no profile other than the one      *)
(* whose item it ends, and changes no profile that has a nextReminder.     *)
C17_InitSweepFrame ==
    [][InitSweepStep =>
          /\ notified' = notified
          /\ \A u \in Users :
                /\ users'[u].lpy = users[u].lpy
                /\ users'[u].birthday = users[u].birthday
                /\ users'[u].active = users[u].active
                /\ users[u].next # Null => users'[u] = users[u]
                /\ users'[u] # users[u] =>
                      /\ runs["init"].pc = "resched"
                      /\ u = runs["init"].page[runs["init"].idx].id]_vars

(* C17's case: a sweep has returned after it gave a profile its first      *)
(* nextReminder, in a store that also holds a profile with a nextReminder  *)
(* and a lastProcessedYear.                                                *)
C17_Witness ==
    /\ runs["init"].pc = "done"
    /\ \E u \in Range(runs["init"].visited) :
          users[u].next # Null /\ users[u].lpy = Null
    /\ \E u \in Users \ Range(runs["init"].visited) :
          users[u].next # Null /\ users[u].lpy # Null

(* C14 (as claimed): the nextReminder a due or missed run persists for an  *)
(* item is the one computed at the instant the run captured when it        *)
(* started.                                                                *)
C14_RecomputeUsesRunInstant ==
    [][\A r \in Scans, u \in Users :
          SchedEnds(r, u) =>
              LET snap == runs[r].page[runs[r].idx]
              IN  users'[u].next =
                     calculateNextBirthday(snap.birthday, snap.tz, runs[r].now, tzOff)]_vars

(* C15 (as claimed): a due or missed run ends the item of a profile at     *)
(* most once.                                                              *)
C15_VisitedAtMostOnce ==
    \A r \in Scans, u \in Users : Count(u, runs[r].visited) <= 1

(* The month and day calculateNextBirthday reads from a birthday, the      *)
(* calendar fields of the clock it reads, and the calendar fields (UTC) of *)
(* the value it returned for profile u.                                    *)
BirthdayFields(u) == LocalFields(users[u].birthday, tzOff)
NowFields == LocalFields(CalcNow, tzOff)
ResultFields(u) == LocalFields(users[u].next, 0)
IsFeb29(f) == f.month0 = 1 /\ f.date = 29
AtFireHour(t) ==
    LocalFields(t, 0).hours = FireHour /\ t % SecondsPerHour = 0

C20_EarliestNotBeforeNow ==
    \A u \in Users :
        users[u].next # Null =>
            /\ users[u].next >= CalcNow
            /\ Candidate(ResultFields(u).year - 1, BirthdayFields(u).month0,
                         BirthdayFields(u).date) < CalcNow

(* C21 (as claimed): the value returned is 09:00 on the clock of the       *)
(* profile's timezone, so profiles with the same birthday in timezones of  *)
(* different offsets get different instants.                               *)
C21_FireHourInProfileZone ==
    \A u, v \in Users :
        (users[u].next # Null /\ users[v].next # Null) =>
            /\ LocalFields(users[u].next, users[u].zone).hours = FireHour
            /\ (users[u].birthday = users[v].birthday /\ users[u].zone # users[v].zone)
                  => users[u].next # users[v].next

(* C22: scheduleBirthdayReminder for a profile without birthday or        *)
(* without timezone computes null and writes nothing.                      *)
C22_UnschedulableNoWrite ==
    [][\A r \in RunIds, u \in Users :
          LET snap == runs[r].page[runs[r].idx]
          IN  (SchedEnds(r, u) /\ (snap.birthday = Null \/ ~snap.tz)) =>
                 /\ calculateNextBirthday(snap.birthday, snap.tz, Now, tzOff) = Null
                 /\ users' = users]_vars

(* C22's case: a due run has visited a profile without birthday, whose    *)
(* nextReminder is the one it had.                                         *)
C22_Witness ==
    /\ runs["due"].pc = "done"
    /\ \E u \in Range(runs["due"].visited) :
          /\ users[u].birthday = Null
          /\ users[u].next = NoBirthday.next
          /\ users[u].remActive

(* C23: in one process the missed-reminder pass is invoked at most once,   *)
(* with a lookback of 24 hours and not before the startup delay has        *)
(* elapsed, and only by the startup timer; every hourly tick invokes the   *)
(* due-processor.                                                          *)
C23_DriverSchedule ==
    /\ driver.missedCalls <= 1
    /\ driver.missedCalls = 1 =>
          /\ driver.elapsed >= StartupDelay
          /\ driver.lookback = 24
          /\ ~driver.armed
    /\ runs["missed"].pc # "idle" => driver.missedCalls = 1
    /\ driver.dueCalls = driver.hourlyTicks

(* C23's case: the startup timer has fired and two hourly ticks have come. *)
C23_Witness ==
    /\ driver.missedCalls = 1
    /\ driver.hourlyTicks >= 2
    /\ runs["due"].pc = "done"

ReminderKept ==
    \A v \in Users :
        /\ users'[v].next = users[v].next
        /\ users'[v].remActive = users[v].remActive
        /\ users'[v].lpy = users[v].lpy

UpdatedSnapshot(u, b) ==
    [id |-> u, birthday |-> b, tz |-> users[u].tz, next |-> users[u].next,
     lpy |-> users[u].lpy]

C26_ReminderWrittenOnReturn ==
    \A u \in Users :
        users[u].present =>
            /\ ~users[u].active => ~users[u].remActive
            /\ (users[u].active /\ users[u].birthday # Null /\ users[u].tz)
                   => users[u].next # Null

(* C30: cancelBirthdayReminder returns true exactly when the document      *)
(* exists and the store did not fail; a successful call changes only the   *)
(* active flag of that reminder, a failed one changes nothing, and a       *)
(* second call changes nothing more.                                       *)
C30_CancelReturnsFound ==
    [][\A u \in Users :
          /\ cancelBirthdayReminder(u) =>
                /\ ret'.value = users[u].present
                /\ users' = IF users[u].present
                            THEN [users EXCEPT ![u].remActive = FALSE]
                            ELSE users
                /\ (users[u].present /\ ~users[u].remActive) => users' = users
          /\ cancelBirthdayReminderFail(u) =>
                ret'.value = FALSE /\ users' = users]_vars

(* C30 witness: a cancel that returned true, the reminder inactive and its *)
(* nextReminder still set.                                                 *)
C30_Witness ==
    /\ ret.op = "cancel" /\ ret.value
    /\ users[ret.id].present /\ ~users[ret.id].remActive
    /\ users[ret.id].next # Null
    /\ \E v \in Users : users[v].present /\ users[v].remActive

(* The profile's reminder is active, its nextReminder lies in the closed   *)
(* lookback window of the run and it is not marked for the run's year.     *)
InLookback(u, run) ==
    /\ users[u].present
    /\ users[u].remActive
    /\ users[u].next # Null
    /\ users[u].next >= run.now - LookbackHours * SecondsPerHour
    /\ users[u].next <= run.now
    /\ users[u].lpy # run.year

(* C27: every profile of a page of the missed-reminder pass is, when the   *)
(* page is fetched, active, with nextReminder in [now - lookback, now] and *)
(* not marked for the current year; and while the pass runs, the only      *)
(* profile notified or modified is the item of the page being processed.   *)
C27_MissedOnlyInWindow ==
    [][/\ (runs["missed"].pc = "find" /\ runs'["missed"].pc = "item") =>
              \A i \in 1..Len(runs'["missed"].page) :
                  InLookback(runs'["missed"].page[i].id, runs["missed"])
       /\ InFlight("missed") =>
              \A u \in Users :
                  (notified'[u] # notified[u] \/ users'[u] # users[u]) =>
                      /\ runs["missed"].pc \in {"item", "mark", "sched", "resched"}
                      /\ u = runs["missed"].page[runs["missed"].idx].id]_vars

(* C27 witness: a returned missed-reminder pass that notified a profile    *)
(* while a profile older than its window and a profile with an inactive    *)
(* reminder are as they were, not notified.                                *)
C27_Witness ==
    /\ runs["missed"].pc = "done"
    /\ \E u, v, w \in Users :
          /\ Count(u, runs["missed"].fired) = 1 /\ notified[u] = 1
          /\ users[v] = Overdue /\ notified[v] = 0
          /\ users[v].next < runs["missed"].now - LookbackHours * SecondsPerHour
          /\ users[w] = Cancelled /\ notified[w] = 0

(* C28 (as claimed): the value a due run returns is the number of          *)
(* profiles it notified whose lastProcessedYear write succeeded.           *)
C28_ReturnsNotifiedAndMarked ==
    runs["due"].pc = "done" =>
        runs["due"].result = Len(runs["due"].fired) - Cardinality(runs["due"].failed)

(* C29: initializeAllReminders returns the number of profiles whose item   *)
(* it ended, a failed scheduling included, and 0 when a page query failed. *)
C29_InitReturnsVisited ==
    runs["init"].pc = "done" =>
        runs["init"].result = IF runs["init"].aborted THEN 0
                              ELSE Len(runs["init"].visited)

(* C29 witness: a returned initialization that visited two profiles, the   *)
(* scheduling of one of them having failed: that profile still has no      *)
(* nextReminder.                                                           *)
C29_Witness ==
    /\ runs["init"].pc = "done" /\ ~runs["init"].aborted
    /\ runs["init"].result = 2
    /\ faults = 1
    /\ \E u \in Range(runs["init"].visited) : users[u].next = Null /\ users[u].tz

(* C31: a store error in the nextReminder write of scheduleBirthdayReminder *)
(* does not leave it: the store is as before, the scan does not record the  *)
(* item as failed, does not abort, and after a notification counts it.      *)
C31_ScheduleErrorSwallowed ==
    [][\A r \in RunIds :
          (runs[r].pc \in {"sched", "resched"} /\ faults' = faults + 1) =>
              /\ users' = users
              /\ runs'[r].failed = runs[r].failed
              /\ ~runs'[r].aborted
              /\ runs'[r].visited = Append(runs[r].visited, runs[r].page[runs[r].idx].id)
              /\ runs[r].pc = "sched" => runs'[r].total = runs[r].total + 1]_vars

(* C31 witness: a returned due run that counted a profile it notified and  *)
(* marked, whose nextReminder write failed and is still the one fired.     *)
C31_Witness ==
    /\ runs["due"].pc = "done" /\ ~runs["due"].aborted
    /\ faults = 1
    /\ runs["due"].failed = {}
    /\ runs["due"].result = Len(runs["due"].fired)
    /\ \E u \in Range(runs["due"].fired) :
          /\ users[u].lpy = runs["due"].year
          /\ users[u].next = Overdue.next

(* The profile is one the due-processor owes a notification: active, with  *)
(* birthday and timezone, nextReminder within the horizon, not marked for   *)
(* the current year.                                                       *)
DueUnprocessed(u) ==
    /\ users[u].present /\ users[u].active /\ users[u].remActive
    /\ users[u].birthday # Null /\ users[u].tz
    /\ users[u].next # Null
    /\ users[u].next <= Now + Horizon
    /\ users[u].lpy # getFullYear(Now, tzOff)

(* C32: a profile that is owed a notification when no pass is running     *)
(* gets one later on, whatever it got before (a pass that skipped it, an   *)
(* item that failed after its notification).                               *)
C32_EventuallyNotified ==
    \A u \in Users, n \in 0..MaxFaults :
        (NoneInFlight /\ DueUnprocessed(u) /\ notified[u] = n) ~> (notified[u] > n)

(* C32 witness: a pass of page size 1 that fetched only the second profile *)
(* of the store, the one an earlier pass had skipped, and notified it:     *)
(* every profile is marked for the year.                                   *)
C32_Witness ==
    /\ runs["due"].pc = "done" /\ runs["due"].batch = 1
    /\ runs["due"].fetched = <<2>> /\ runs["due"].fired = <<2>>
    /\ \A u \in Users :
          /\ users[u].birthday = BirthdayA
          /\ notified[u] >= 1
          /\ users[u].lpy = getFullYear(Now, tzOff)

(* The step ends the last item of the page of run r. *)
PageEnds(r) ==
    /\ runs[r].pc \in {"item", "mark", "sched", "resched"}
    /\ runs[r].idx = Len(runs[r].page)
    /\ runs'[r].visited # runs[r].visited

(* C33: every scan that was started returns; a fetch that finds no row     *)
(* ends the run, and the end of a page ends the run exactly when the page   *)
(* held fewer rows than batchSize, the next fetch being batchSize further.  *)
C33_ScansTerminate ==
    /\ \A r \in RunIds : InFlight(r) ~> (runs[r].pc = "done")
    /\ [][\A r \in RunIds :
             /\ (runs[r].pc = "find" /\ runs'[r].pc # "find") =>
                    (runs'[r].pc = "done" \/ Len(runs'[r].page) \in 1..runs[r].batch)
             /\ PageEnds(r) =>
                    IF Len(runs[r].page) < runs[r].batch
                    THEN runs'[r].pc = "done"
                    ELSE runs'[r].pc = "find" /\ runs'[r].skip = runs[r].skip + runs[r].batch]_vars

(* C33 witness: a returned initialization of page size 1 that visited      *)
(* three profiles, all of them still without nextReminder.                 *)
C33_Witness ==
    /\ runs["init"].pc = "done" /\ runs["init"].batch = 1
    /\ runs["init"].visited = <<1, 2, 3>>
    /\ \A u \in Users : InitFilter(u)

(* The batches of the migration that hold the id u. *)
BatchesWith(u) ==
    {k \in 1..Len(migration.sent) :
        \E j \in 1..Len(migration.sent[k]) : migration.sent[k][j] = u}

(* C34: the migration that has ended has sent every id its query found in   *)
(* exactly one batch and no other id, no batch is empty or larger than the  *)
(* batch size, nothing is left unsent, and every found profile has the      *)
(* default reminder state; the query finds exactly the documents without    *)
(* birthdayReminder, and a document that has one is never modified.         *)
C34_MigrationBatches ==
    /\ [](migration.pc = "done" =>
            /\ \A u \in Users :
                  Cardinality(BatchesWith(u)) =
                      IF u \in Range(migration.found) THEN 1 ELSE 0
            /\ \A k \in 1..Len(migration.sent) :
                  Len(migration.sent[k]) \in 1..MigrationBatchSize
            /\ migration.currentBatch = <<>>
            /\ \A u \in Range(migration.found) :
                  /\ users[u].reminder /\ users[u].remActive
                  /\ users[u].next = Null /\ users[u].lpy = Null)
    /\ [][/\ migration.pc = "idle" =>
               Range(migration'.found) = {u \in Users : WithoutReminder(u)}
          /\ \A u \in Users : users[u].reminder => users'[u] = users[u]]_vars

(* C34 witness: a migration of three documents that has ended: a full      *)
(* batch, then the last, partial one.                                      *)
C34_Witness ==
    /\ migration.pc = "done"
    /\ migration.sent = <<<<1, 2>>, <<3>>>>
    /\ migration.processedCount = 3

(* C35 (as claimed): the lastProcessedYear a scan writes after a           *)
(* notification is the calendar year of the nextReminder it fired.         *)
C35_MarksOccurrenceYear ==
    [][\A r \in Scans :
          (runs[r].pc = "mark" /\ runs'[r].pc = "sched") =>
              LET snap == runs[r].page[runs[r].idx]
              IN  users'[snap.id].lpy = getFullYear(snap.next, tzOff)]_vars

(* C36 (as claimed): an active reminder belongs to a profile that is not   *)
(* soft-deleted; the moments at which deleteUser has returned and its own   *)
(* cancel write is still to be applied are left aside.                      *)
C36_ActiveReminderOfLiveProfile ==
    \A u \in Users :
        (users[u].present /\ users[u].remActive /\ ~users[u].active)
            => CancelCall(u) \in pending

(* C37 (as claimed): once the scans have returned and the recompute of an  *)
(* update has been applied, the nextReminder of a profile is an occurrence  *)
(* of the birthday the profile has.                                         *)
C37_UpdateRecomputeKept ==
    (NoneInFlight /\ pending = {}) =>
        \A u \in Users :
            (users[u].present /\ users[u].birthday # Null /\ users[u].next # Null) =>
                /\ ResultFields(u).month0 = BirthdayFields(u).month0
                /\ ResultFields(u).date = BirthdayFields(u).date

(* C38: a step that changes a profile's lastProcessedYear is the write of  *)
(* a scan that has notified that profile in this item; it sets the run's   *)
(* year, never null and never a year before the one it replaces.  No       *)
(* recompute, cancellation or initialization changes it.                   *)
C38_LastProcessedYearMonotone ==
    [][\A u \in Users :
          users'[u].lpy # users[u].lpy =>
              /\ \E r \in Scans :
                    /\ runs[r].pc = "mark"
                    /\ runs[r].page[runs[r].idx].id = u
                    /\ runs[r].fired[Len(runs[r].fired)] = u
                    /\ users'[u].lpy = runs[r].year
              /\ users'[u].lpy # Null
              /\ users[u].lpy # Null => users'[u].lpy > users[u].lpy]_vars

(* C38 witness: a profile marked for the current year whose birthday was   *)
(* changed afterwards: its nextReminder is recomputed for the new birthday  *)
(* and its lastProcessedYear is still the current year.                     *)
C38_Witness ==
    /\ pending = {} /\ calls = 1 /\ NoneInFlight
    /\ users[2].lpy = getFullYear(Now, tzOff) /\ notified[2] = 1
    /\ users[2].birthday = BirthdayB
    /\ users[2].next = calculateNextBirthday(BirthdayB, TRUE, Now, tzOff)
    /\ users[1].lpy = getFullYear(Now, tzOff) /\ notified[1] = 1

(* The tasks created for user u that have not been stopped. *)
RunningFor(u) ==
    {k \in 1..Len(birthdayJobs.tasks) :
        birthdayJobs.tasks[k].user = u /\ birthdayJobs.tasks[k].running}

(* C39: every user has at most one running task, and the map holds exactly *)
(* the running tasks, each under the user it was created for; a cancel for  *)
(* a user without task changes nothing.                                     *)
C39_OneJobPerUser ==
    /\ [](\A u \in Users :
            /\ Cardinality(RunningFor(u)) <= 1
            /\ RunningFor(u) = IF birthdayJobs.map[u] = Null THEN {}
                               ELSE {birthdayJobs.map[u]})
    /\ [][\A u \in Users :
             (timerCancelBirthdayReminder(u) /\ birthdayJobs.map[u] = Null)
                 => birthdayJobs' = birthdayJobs]_vars

(* C39 witness: a user scheduled twice: the first task is stopped, the     *)
(* second runs and is the one in the map.                                  *)
C39_Witness ==
    /\ Len(birthdayJobs.tasks) >= 2
    /\ birthdayJobs.tasks[1].user = birthdayJobs.tasks[2].user
    /\ ~birthdayJobs.tasks[1].running
    /\ birthdayJobs.tasks[2].running
    /\ birthdayJobs.map[birthdayJobs.tasks[2].user] = 2

====
